---- MODULE Spec2Model ----
(***************************************************************************)
(* Model of plot.py: the scenario evaluator create_interactive_energy_plot *)
(* (installed capacities, hourly profile, backup capacity, y-axis limits)  *)
(* and the Dash callback update_graph that clips the date window and calls *)
(* it.                                                                     *)
(*                                                                         *)
(* Numbers are IEEE-754 doubles, as Python floats and numpy float64 are:   *)
(* <<s, e, hi, lo>> is (-1)^s * (hi * 2^27 + lo) * 2^e with a mantissa of   *)
(* exactly 53 bits (2^25 <= hi < 2^26, lo < 2^27); <<s, 0, 0, 0>> is +0.0  *)
(* or -0.0 and <<0, 1, 0, 0>> is NaN.  Every operation rounds its exact    *)
(* result to the nearest double, ties to even.  Infinities, subnormals and *)
(* overflow are not modelled: the code divides only behind a guard '> 0'   *)
(* and the values of the tables stay far from the ends of the range.       *)
(* Python's None is the empty tuple.  A timestamp is a number of hours     *)
(* since the first midnight of the table, a date (and a '%Y-%m-%d' string) *)
(* is a number of days.                                                    *)
(*                                                                         *)
(* Spec serves one request, of every kind, on every table and every mix;   *)
(* SpecEval serves the direct calls of the evaluator only; SpecSeq serves  *)
(* any sequence of requests drawn from a narrower alphabet.                *)
(***************************************************************************)
EXTENDS Integers, Sequences, FiniteSets, TLC

VARIABLES df_cf, capacities_dict, min_date, max_date, req, call, ret, out, first

vars == <<df_cf, capacities_dict, min_date, max_date, req, call, ret, out, first>>

(* ------------------------------ bounds -------------------------------- *)

NumDays == 2

HoursPerDay == 2

NumRows == NumDays * HoursPerDay

(* --------------------------- IEEE-754 doubles ------------------------- *)

P14 == 2^14

P25 == 2^25

P26 == 2^26

P27 == 2^27

P28 == 2^28

\* 2^k for 0 <= k <= 30
Pow2Table ==
    <<1, 2, 4, 8, 16, 32, 64, 128, 256, 512, 1024, 2048, 4096, 8192, 16384, 32768,
      65536, 131072, 262144, 524288, 1048576, 2097152, 4194304, 8388608, 16777216,
      33554432, 67108864, 134217728, 268435456, 536870912, 1073741824>>

Pow2(k) == Pow2Table[k + 1]

None == << >>

Some(v) == <<v>>

NaN == <<0, 1, 0, 0>>

IsNaN(x) == x[3] = 0 /\ x[2] = 1

IsZero(x) == x[3] = 0 /\ x[2] = 0

SignedZero(s) == <<s, 0, 0, 0>>

Zero == SignedZero(0)

\* the number of bits of n, 0 <= n < 2^31
BitLen(n) ==
    IF n < 65536
    THEN IF n < 256
         THEN IF n < 16
              THEN IF n < 4 THEN (IF n < 2 THEN n ELSE 2) ELSE (IF n < 8 THEN 3 ELSE 4)
              ELSE IF n < 64 THEN (IF n < 32 THEN 5 ELSE 6) ELSE (IF n < 128 THEN 7 ELSE 8)
         ELSE IF n < 4096
              THEN IF n < 1024 THEN (IF n < 512 THEN 9 ELSE 10)
                   ELSE (IF n < 2048 THEN 11 ELSE 12)
              ELSE IF n < 16384 THEN (IF n < 8192 THEN 13 ELSE 14)
                   ELSE (IF n < 32768 THEN 15 ELSE 16)
    ELSE IF n < 16777216
         THEN IF n < 1048576
              THEN IF n < 262144 THEN (IF n < 131072 THEN 17 ELSE 18)
                   ELSE (IF n < 524288 THEN 19 ELSE 20)
              ELSE IF n < 4194304 THEN (IF n < 2097152 THEN 21 ELSE 22)
                   ELSE (IF n < 8388608 THEN 23 ELSE 24)
         ELSE IF n < 268435456
              THEN IF n < 67108864 THEN (IF n < 33554432 THEN 25 ELSE 26)
                   ELSE (IF n < 134217728 THEN 27 ELSE 28)
              ELSE IF n < 1073741824 THEN (IF n < 536870912 THEN 29 ELSE 30) ELSE 31

\* h * 2^28 + l (l < 2^28) shifted left by k bits, the result below 2^56
ShiftLeft(h, l, k) ==
    IF k >= 28 THEN <<l * Pow2(k - 28), 0>>
    ELSE <<h * Pow2(k) + l \div Pow2(28 - k), (l % Pow2(28 - k)) * Pow2(k)>>

\* the double of sign s with the 53-bit mantissa m[1] * 2^28 + m[2]
Pack(s, e, m) == <<s, e, 2 * m[1] + m[2] \div P27, m[2] % P27>>

\* the same after the mantissa was rounded up to mh * 2^28 + ml, ml <= 2^28
Carry(s, e, mh, ml) ==
    IF ml < P28 THEN Pack(s, e, <<mh, ml>>)
    ELSE IF mh + 1 = P25 THEN <<s, e + 1, P25, 0>>
    ELSE Pack(s, e, <<mh + 1, 0>>)

\* round to nearest, ties to even: up when the bits cut off are above the
\* half, or at it while something lies below them or the mantissa is odd
RoundUp(s, e, mh, ml, rem, half, sticky) ==
    IF rem > half \/ (rem = half /\ (sticky \/ ml % 2 = 1))
    THEN Carry(s, e, mh, ml + 1)
    ELSE Pack(s, e, <<mh, ml>>)

RoundShift(s, e, h, l, sticky, k) ==
    RoundUp(s, e + k, h \div Pow2(k), l \div Pow2(k) + (h % Pow2(k)) * Pow2(28 - k),
            l % Pow2(k), Pow2(k - 1), sticky)

RoundLen(s, e, h, l, sticky, len) ==
    IF len <= 53 THEN Pack(s, e - (53 - len), ShiftLeft(h, l, 53 - len))
    ELSE RoundShift(s, e, h, l, sticky, len - 53)

\* the double of sign s nearest to (h * 2^28 + l) * 2^e, ties to even; a set
\* sticky flag says that the exact value lies above it by less than 2^e
RoundPack(s, e, h, l, sticky) ==
    IF h = 0 /\ l = 0 THEN SignedZero(s)
    ELSE RoundLen(s, e, h, l, sticky, IF h > 0 THEN 28 + BitLen(h) ELSE BitLen(l))

FromNat(s, a, len) == <<s, len - 53, a * Pow2(26 - len), 0>>

\* the double equal to the integer n, |n| < 2^26
FromInt(n) ==
    IF n = 0 THEN Zero
    ELSE IF n < 0 THEN FromNat(1, -n, BitLen(-n))
    ELSE FromNat(0, n, BitLen(n))

One == FromInt(1)

FNeg(x) == IF IsNaN(x) THEN NaN ELSE <<1 - x[1], x[2], x[3], x[4]>>

\* |x| > |y| for doubles that are not NaN
MagGt(x, y) ==
    IF IsZero(x) THEN FALSE
    ELSE IF IsZero(y) THEN TRUE
    ELSE \/ x[2] > y[2]
         \/ x[2] = y[2] /\ (x[3] > y[3] \/ (x[3] = y[3] /\ x[4] > y[4]))

\* x > y, x >= y, x == y on floats: false as soon as one side is NaN
FGt(x, y) ==
    /\ ~IsNaN(x) /\ ~IsNaN(y)
    /\ ~(IsZero(x) /\ IsZero(y))
    /\ IF x[1] # y[1] THEN x[1] = 0
       ELSE IF x[1] = 0 THEN MagGt(x, y) ELSE MagGt(y, x)

FEq(x, y) ==
    /\ ~IsNaN(x) /\ ~IsNaN(y)
    /\ (IsZero(x) /\ IsZero(y)) \/ x = y

FGe(x, y) == FGt(x, y) \/ FEq(x, y)

\* nl with its lowest bit set when a bit was lost
Sticky(nl, lost) == IF lost /\ nl % 2 = 0 THEN nl + 1 ELSE nl

\* h * 2^28 + l shifted right by d bits, the lowest bit set when a bit was
\* shifted out
ShiftRightSticky(h, l, d) ==
    IF d = 0 THEN <<h, l>>
    ELSE IF d < 28
    THEN <<h \div Pow2(d),
           Sticky(l \div Pow2(d) + (h % Pow2(d)) * Pow2(28 - d), l % Pow2(d) # 0)>>
    ELSE IF d < 56
    THEN <<0, Sticky(h \div Pow2(d - 28), h % Pow2(d - 28) # 0 \/ l # 0)>>
    ELSE <<0, 1>>

\* 8 * mantissa of y, shifted right by d bits, as <<h, l>> in base 2^28
Aligned(y, d) == ShiftRightSticky(4 * y[3] + y[4] \div P25, (y[4] % P25) * 8, d)

AddMag(s, e, a, b) ==
    RoundPack(s, e, a[1] + b[1] + (a[2] + b[2]) \div P28, (a[2] + b[2]) % P28, FALSE)

SubMag(s, e, a, b) ==
    RoundPack(s, e, a[1] - b[1] - (IF a[2] < b[2] THEN 1 ELSE 0),
              (a[2] - b[2] + P28) % P28, FALSE)

\* x + y from the aligned mantissas a of x and b of y
AddAligned(x, y, a, b) ==
    IF x[1] = y[1] THEN AddMag(x[1], x[2] - 3, a, b)
    ELSE IF a = b THEN Zero
    ELSE IF a[1] > b[1] \/ (a[1] = b[1] /\ a[2] > b[2])
    THEN SubMag(x[1], x[2] - 3, a, b)
    ELSE SubMag(y[1], x[2] - 3, b, a)

\* x + y for x, y neither zero nor NaN, the exponent of x not below that of y
AddOrdered(x, y) == AddAligned(x, y, Aligned(x, 0), Aligned(y, x[2] - y[2]))

FAdd(x, y) ==
    IF IsNaN(x) \/ IsNaN(y) THEN NaN
    ELSE IF IsZero(x)
    THEN (IF IsZero(y) THEN SignedZero(IF x[1] = 1 /\ y[1] = 1 THEN 1 ELSE 0) ELSE y)
    ELSE IF IsZero(y) THEN x
    ELSE IF x[2] >= y[2] THEN AddOrdered(x, y) ELSE AddOrdered(y, x)

FSub(x, y) == FAdd(x, FNeg(y))

\* the four base-2^14 digits of a mantissa, lowest first
Digits(x) ==
    <<x[4] % P14, x[4] \div P14 + (x[3] % 2) * 8192, (x[3] \div 2) % P14,
      x[3] \div 32768>>

\* the product of the digit strings a and b, column by column with the carry
\* c of the column before: its bits from 2^50 up as h * 2^28 + l, and
\* whether a bit below 2^50 is set
MulCol7(sticky, l, h, c) ==
    [h |-> h + (c % P14) * 64 + (c \div P14) * 1048576, l |-> l, sticky |-> sticky]

MulCol6(a, b, sticky, l, c) ==
    MulCol7(sticky, l + ((c % P14) % 256) * 1048576, (c % P14) \div 256,
            a[4] * b[4] + c \div P14)

MulCol5(a, b, sticky, l, c) ==
    MulCol6(a, b, sticky, l + (c % P14) * 64, a[3] * b[4] + a[4] * b[3] + c \div P14)

MulCol4(a, b, sticky, c) ==
    MulCol5(a, b, sticky \/ (c % P14) % 256 # 0, (c % P14) \div 256,
            a[2] * b[4] + a[3] * b[3] + a[4] * b[2] + c \div P14)

MulCol3(a, b, sticky, c) ==
    MulCol4(a, b, sticky \/ c % P14 # 0,
            a[1] * b[4] + a[2] * b[3] + a[3] * b[2] + a[4] * b[1] + c \div P14)

MulCol2(a, b, sticky, c) ==
    MulCol3(a, b, sticky \/ c % P14 # 0,
            a[1] * b[3] + a[2] * b[2] + a[3] * b[1] + c \div P14)

MulCol1(a, b, c) ==
    MulCol2(a, b, c % P14 # 0, a[1] * b[2] + a[2] * b[1] + c \div P14)

MulMant(a, b) == MulCol1(a, b, a[1] * b[1])

MulPack(s, e, p) == RoundPack(s, e, p.h, p.l, p.sticky)

FMul(x, y) ==
    IF IsNaN(x) \/ IsNaN(y) THEN NaN
    ELSE IF IsZero(x) \/ IsZero(y) THEN SignedZero((x[1] + y[1]) % 2)
    ELSE IF y[3] = P25 /\ y[4] = 0
    THEN <<(x[1] + y[1]) % 2, x[2] + y[2] + 52, x[3], x[4]>>
    ELSE IF x[3] = P25 /\ x[4] = 0
    THEN <<(x[1] + y[1]) % 2, x[2] + y[2] + 52, y[3], y[4]>>
    ELSE MulPack((x[1] + y[1]) % 2, x[2] + y[2] + 50, MulMant(Digits(x), Digits(y)))

\* the four base-2^14 digits of 8 * the mantissa of x, lowest first; the
\* highest is at least 2^13
Digits8(x) ==
    <<(x[4] % 2048) * 8, (x[4] \div 2048) % P14,
      x[4] \div P25 + (x[3] % 4096) * 4, x[3] \div 4096>>

\* t + d * 2^(14 * (4 - Len(d))) digit by digit from the lowest digit of d,
\* c the carry so far; t has the digits done in front and the rest behind
RECURSIVE AddDigits(_, _, _, _)
AddDigits(done, t, d, c) ==
    IF d = << >> THEN Append(done, t[1] + c)
    ELSE AddDigits(Append(done, (t[1] + d[1] + c) % P14), Tail(t), Tail(d),
                   (t[1] + d[1] + c) \div P14)

\* r * 2^14 - q * d digit by digit, c the borrow so far: four digits and the
\* signed rest
RECURSIVE MulSubDigits(_, _, _, _, _)
MulSubDigits(done, q, r, d, c) ==
    IF d = << >> THEN Append(done, r[1] + c)
    ELSE MulSubDigits(Append(done, (r[1] - q * d[1] + c) % P14), q, Tail(r), Tail(d),
                      (r[1] - q * d[1] + c) \div P14)

MulSub(q, r, d) == MulSubDigits(<< >>, q, <<0>> \o r, d, 0)

AddBack(t, d) == AddDigits(<< >>, t, d, 0)

\* the estimate q of a quotient digit is at most two too large
Correct2(q, t, d) == IF t[5] < 0 THEN <<q - 2, AddBack(t, d)>> ELSE <<q - 1, t>>

Correct(q, t, d) == IF t[5] < 0 THEN Correct2(q, AddBack(t, d), d) ELSE <<q, t>>

Capped(q) == IF q < P14 THEN q ELSE P14 - 1

QHat(r, d) == Capped((r[4] * P14 + r[3]) \div d[4])

DivDigit(q, r, d) == Correct(q, MulSub(q, r, d), d)

\* long division of the remainder r (below d) by d, a base-2^14 digit a
\* step: <<next quotient digit, next remainder>>
DivStep(r, d) == DivDigit(QHat(r, d), r, d)

DivPack(q0, s1, s2, s3, s4) ==
    [h |-> q0 * P28 + s1[1] * P14 + s2[1], l |-> s3[1] * P14 + s4[1],
     sticky |-> s4[2] # <<0, 0, 0, 0, 0>>]

Div4(q0, s1, s2, s3, d) == DivPack(q0, s1, s2, s3, DivStep(s3[2], d))

Div3(q0, s1, s2, d) == Div4(q0, s1, s2, DivStep(s2[2], d), d)

Div2(q0, s1, d) == Div3(q0, s1, DivStep(s1[2], d), d)

Div1(q0, r, d) == Div2(q0, DivStep(r, d), d)

\* a - b on digits, for a not below b
SubDigits(a, b) == SubSeq(MulSubDigits(<< >>, 1, a \o <<0>>, b, 0), 1, 4)

\* floor(mantissa of x * 2^56 / mantissa of y) as h * 2^28 + l, and whether
\* the division left a remainder
DivMant(x, y) ==
    IF x[3] > y[3] \/ (x[3] = y[3] /\ x[4] >= y[4])
    THEN Div1(1, SubDigits(Digits8(x), Digits8(y)), Digits8(y))
    ELSE Div1(0, Digits8(x), Digits8(y))

\* x / y for y # 0 (the code guards every division)
FDiv(x, y) ==
    IF IsNaN(x) \/ IsNaN(y) THEN NaN
    ELSE IF IsZero(x) THEN SignedZero((x[1] + y[1]) % 2)
    ELSE IF y[3] = P25 /\ y[4] = 0
    THEN <<(x[1] + y[1]) % 2, x[2] - y[2] - 52, x[3], x[4]>>
    ELSE MulPack((x[1] + y[1]) % 2, x[2] - y[2] - 56, DivMant(x, y))

FAbs(x) == IF IsNaN(x) THEN NaN ELSE <<0, x[2], x[3], x[4]>>

\* the builtins max(a, b) and min(a, b): b only when b > a, when b < a
PyMax(a, b) == IF FGt(b, a) THEN b ELSE a

PyMin(a, b) == IF FGt(a, b) THEN b ELSE a

\* acc + s[i] + s[i + step] + ... over the indices up to n, left to right
RECURSIVE SumFrom(_, _, _, _, _)
SumFrom(acc, s, i, step, n) ==
    IF i > n THEN acc ELSE SumFrom(FAdd(acc, s[i]), s, i + step, step, n)

Sum8(r1, r2, r3, r4, r5, r6, r7, r8) ==
    FAdd(FAdd(FAdd(r1, r2), FAdd(r3, r4)), FAdd(FAdd(r5, r6), FAdd(r7, r8)))

\* the largest multiple of 8 not above n
Full8(n) == n - (n % 8)

\* numpy's pairwise summation of the n elements of s after offset o: a plain
\* loop below 8 elements, eight interleaved accumulators up to 128 elements,
\* two halves beyond
RECURSIVE PairwiseSum(_, _, _)
PairwiseSum(s, o, n) ==
    IF n < 8 THEN SumFrom(Zero, s, o + 1, 1, o + n)
    ELSE IF n <= 128
    THEN SumFrom(Sum8(SumFrom(s[o + 1], s, o + 9, 8, o + Full8(n)),
                      SumFrom(s[o + 2], s, o + 10, 8, o + Full8(n)),
                      SumFrom(s[o + 3], s, o + 11, 8, o + Full8(n)),
                      SumFrom(s[o + 4], s, o + 12, 8, o + Full8(n)),
                      SumFrom(s[o + 5], s, o + 13, 8, o + Full8(n)),
                      SumFrom(s[o + 6], s, o + 14, 8, o + Full8(n)),
                      SumFrom(s[o + 7], s, o + 15, 8, o + Full8(n)),
                      SumFrom(s[o + 8], s, o + 16, 8, o + Full8(n))),
                 s, o + Full8(n) + 1, 1, o + n)
    ELSE FAdd(PairwiseSum(s, o, Full8(n \div 2)),
              PairwiseSum(s, o + Full8(n \div 2),
                          n - Full8(n \div 2)))

\* skipna=True, the default of Series.sum and DataFrame.sum: a NaN counts as 0.0
SkipNaN(x) == IF IsNaN(x) THEN Zero ELSE x

\* Series.sum() of a float column: NaN cells skipped, 0.0 when it is empty
SumSeq(s) == FAdd(Zero, PairwiseSum([i \in 1..Len(s) |-> SkipNaN(s[i])], 0, Len(s)))

\* the builtins max(list) and min(list) of a list that is not empty: the first
\* element, replaced by each later one that compares greater, smaller
RECURSIVE MaxFrom(_, _, _)
MaxFrom(m, l, i) ==
    IF i > Len(l) THEN m ELSE MaxFrom(IF FGt(l[i], m) THEN l[i] ELSE m, l, i + 1)

PyMaxList(l) == MaxFrom(l[1], l, 2)

RECURSIVE MinFrom(_, _, _)
MinFrom(m, l, i) ==
    IF i > Len(l) THEN m ELSE MinFrom(IF FGt(m, l[i]) THEN l[i] ELSE m, l, i + 1)

PyMinList(l) == MinFrom(l[1], l, 2)

NotNaN(x) == ~IsNaN(x)

\* the first element of a list without NaN that no element exceeds, is below
Largest(l) == l[CHOOSE i \in 1..Len(l) :
                  /\ \A j \in 1..Len(l) : ~FGt(l[j], l[i])
                  /\ \A j \in 1..(i - 1) : FGt(l[i], l[j])]

Smallest(l) == l[CHOOSE i \in 1..Len(l) :
                   /\ \A j \in 1..Len(l) : ~FGt(l[i], l[j])
                   /\ \A j \in 1..(i - 1) : FGt(l[j], l[i])]

\* Series.max() and Series.min(): NaN is skipped, the result is NaN when
\* nothing is left
MaxSeq(s) ==
    IF SelectSeq(s, NotNaN) = << >> THEN NaN ELSE Largest(SelectSeq(s, NotNaN))

MinSeq(s) ==
    IF SelectSeq(s, NotNaN) = << >> THEN NaN ELSE Smallest(SelectSeq(s, NotNaN))


(* ----------------------- the capacity-factor table -------------------- *)

\* the double a decimal literal n/d parses to: the one nearest to n / d
Decimal(n, d) == FDiv(FromInt(n), FromInt(d))

Half == Decimal(1, 2)

GenCols == <<"Nuclear", "Wind offshore", "Wind onshore", "Solar">>

RenewableCols == {"Solar", "Wind onshore", "Wind offshore"}

TableCols == {"Nuclear", "Wind offshore", "Wind onshore", "Solar", "Load"}

\* hourly values of the columns of scenarios/df_cf.csv, as patterns over the
\* hour t of the table: capacity factors in [0, 1], load >= 0 (a flat load of
\* 33.3 and a load that alternates between 60.1 and 80.3)
NuclearPatterns == {"zero", "one"}

RenewablePatterns == {"none", "mix"}

LoadPatterns == {"zero", "flat", "alt"}

SolarCurve == <<Zero, Half, One, Half>>

CellOf(np, rp, lp, col, t) ==
    CASE col = "Nuclear" -> IF np = "one" THEN One ELSE Zero
      [] col = "Solar" -> IF rp = "mix" THEN SolarCurve[(t % 4) + 1] ELSE Zero
      [] col = "Wind onshore" -> IF rp = "mix" THEN Half ELSE Zero
      [] col = "Wind offshore" -> IF rp = "mix" /\ t % 2 = 0 THEN One ELSE Zero
      [] col = "Load" ->
            IF lp = "flat" THEN Decimal(333, 10)
            ELSE IF lp = "alt"
            THEN (IF t % 2 = 0 THEN Decimal(601, 10) ELSE Decimal(803, 10))
            ELSE Zero

\* row i of a table carries the timestamp i - 1 (hourly, gap-free, sorted)
TableOf(np, rp, lp) ==
    [i \in 1..NumRows |-> [col \in TableCols |-> CellOf(np, rp, lp, col, i - 1)]]

Tables == {TableOf(np, rp, lp) :
              np \in NuclearPatterns, rp \in RenewablePatterns, lp \in LoadPatterns}

Weights(so, won, woff) ==
    [t \in {"Wind offshore", "Wind onshore", "Solar", "Nuclear"} |->
        CASE t = "Wind offshore" -> woff
          [] t = "Wind onshore" -> won
          [] t = "Solar" -> so
          [] t = "Nuclear" -> Zero]

\* the weights plot.py sets: the doubles of the literals 0.6416666666666667,
\* 0.24166666666666667 and 0.11666666666666667
ModuleWeights ==
    Weights(<<0, -53, 43061521, 8947849>>, <<0, -55, 64871901, 116322031>>,
            <<0, -56, 62634939, 98426334>>)

\* the module's weights, a solar-only mix and the degenerate all-zero mix

WeightSets == {ModuleWeights, Weights(One, Zero, Zero), Weights(Zero, Zero, Zero)}

(* ------------------------------ dates --------------------------------- *)

\* pd.to_datetime of a date or of a '%Y-%m-%d' string: midnight of that day
ToDatetime(day) == day * HoursPerDay

\* Timestamp.strftime('%Y-%m-%d') and Timestamp.date(): the day, time dropped
Strftime(ts) == ts \div HoursPerDay

\* timedelta(days=n)
Timedelta(days) == days * HoursPerDay

\* (end - start).days
DaysBetween(end, start) == (end - start) \div HoursPerDay

IndexMin(df) == 0

IndexMax(df) == Len(df) - 1

\* df.loc[start_date:end_date] with '%Y-%m-%d' strings on a sorted hourly index:
\* the rows from midnight of the start day to the last hour of the end day
LocSlice(df, start_date, end_date) ==
    LET lo == ToDatetime(start_date)
        hi == ToDatetime(end_date) + HoursPerDay - 1
    IN  SelectSeq([i \in 1..Len(df) |-> [ts |-> i - 1, row |-> df[i]]],
                  LAMBDA r : lo <= r.ts /\ r.ts <= hi)

Column(period, col) == [i \in 1..Len(period) |-> period[i].row[col]]

(* --------------- create_interactive_energy_plot, first pass ----------- *)

TotalLoadEnergy(period) == SumSeq(Column(period, "Load"))

\* faulty variant: the nuclear fleet sized for the whole load, the fraction forgotten
NuclearInstalledWholeLoad(nuclear_fraction, total_load_energy, nuclear_cf_sum) ==
    IF FGt(nuclear_cf_sum, Zero)
    THEN FDiv(total_load_energy, nuclear_cf_sum)
    ELSE Zero

NuclearInstalled(nuclear_fraction, total_load_energy, nuclear_cf_sum) ==
    LET nuclear_generation_needed == FMul(nuclear_fraction, total_load_energy)
    IN  IF FGt(nuclear_cf_sum, Zero)
        THEN FDiv(nuclear_generation_needed, nuclear_cf_sum)
        ELSE Zero

RenewableCfWeighted(caps, period) ==
    FAdd(FAdd(FMul(caps["Solar"], SumSeq(Column(period, "Solar"))),
              FMul(caps["Wind onshore"], SumSeq(Column(period, "Wind onshore")))),
         FMul(caps["Wind offshore"], SumSeq(Column(period, "Wind offshore"))))

\* faulty variant: the zero guard dropped in favour of a shifted denominator
TotalRenewableShifted(nuclear_fraction, total_load_energy, renewable_cf_weighted) ==
    FDiv(FMul(FSub(One, nuclear_fraction), total_load_energy),
         FAdd(renewable_cf_weighted, One))

TotalRenewable(nuclear_fraction, total_load_energy, renewable_cf_weighted) ==
    LET renewable_generation_needed ==
            FMul(FSub(One, nuclear_fraction), total_load_energy)
    IN  IF FGt(renewable_cf_weighted, Zero)
        THEN FDiv(renewable_generation_needed, renewable_cf_weighted)
        ELSE Zero

InstalledCapacity(caps, period, nuclear_fraction) ==
    LET total_load_energy == TotalLoadEnergy(period)
        C == TotalRenewable(nuclear_fraction, total_load_energy,
                            RenewableCfWeighted(caps, period))
    IN  [t \in {"Nuclear", "Wind offshore", "Wind onshore", "Solar"} |->
            IF t = "Nuclear"
            THEN NuclearInstalled(nuclear_fraction, total_load_energy,
                                  SumSeq(Column(period, "Nuclear")))
            ELSE FMul(caps[t], C)]

\* bess.clip(lower=0) and bess.clip(upper=0), one value
ClipLower0(x) == IF FGt(Zero, x) THEN Zero ELSE x

ClipUpper0(x) == IF FGt(x, Zero) THEN Zero ELSE x

StoragePotential(bess) == FNeg(ClipLower0(bess))

\* faulty variant: the deficit kept with its negative sign
StorageConsumptionSigned(bess) == ClipUpper0(bess)

StorageConsumption(bess) == FNeg(ClipUpper0(bess))

\* df_.sum(axis=1) - load for one hour of the window; the row sum skips NaN
Bess(gen, load) ==
    FSub(FAdd(FAdd(FAdd(FAdd(Zero, SkipNaN(gen[GenCols[1]])), SkipNaN(gen[GenCols[2]])),
                   SkipNaN(gen[GenCols[3]])), SkipNaN(gen[GenCols[4]])), load)

ProfileCols ==
    {"Nuclear", "Wind offshore", "Wind onshore", "Solar",
     "Storage potential", "Storage consumption requirement"}

\* faulty variant: capacity factors capped at 1 before they are applied
GenerationCapped(period, installed) ==
    [i \in 1..Len(period) |->
        [t \in DOMAIN installed |->
            FMul(IF FGt(period[i].row[t], One) THEN One ELSE period[i].row[t],
                 installed[t])]]

\* the four generation columns of df_ : capacity factor times installed capacity
Generation(period, installed) ==
    [i \in 1..Len(period) |->
        [t \in DOMAIN installed |-> FMul(period[i].row[t], installed[t])]]

BessSeries(period, gen) ==
    [i \in 1..Len(period) |-> Bess(gen[i], period[i].row["Load"])]

\* the rows of df_ : the four generation columns, then the two storage columns
Profile(period, gen, bess) ==
    [i \in 1..Len(period) |->
        [ts |-> period[i].ts,
         val |-> [c \in ProfileCols |->
                    CASE c = "Storage potential" -> StoragePotential(bess[i])
                      [] c = "Storage consumption requirement" ->
                            StorageConsumption(bess[i])
                      [] OTHER -> gen[i][c]]]]

BatteryCapacity(bess) ==
    LET peak_surplus == MaxSeq([i \in 1..Len(bess) |-> ClipLower0(bess[i])])
        peak_deficit == MaxSeq([i \in 1..Len(bess) |-> FNeg(ClipUpper0(bess[i]))])
    IN  PyMax(peak_surplus, peak_deficit)

\* the three lists a call starts from
NewLists ==
    [battery_capacities |-> << >>, installed_capacities |-> << >>,
     scenario_data |-> << >>]

\* what one iteration appends to the three lists, from the values it computed
AppendScenario(lists, period, installed, gen, bess, nuclear_fraction) ==
    [battery_capacities |-> Append(lists.battery_capacities, BatteryCapacity(bess)),
     installed_capacities |-> Append(lists.installed_capacities, installed),
     scenario_data |->
        Append(lists.scenario_data,
               [df |-> Profile(period, gen, bess),
                load |-> [i \in 1..Len(period) |->
                            [ts |-> period[i].ts, val |-> period[i].row["Load"]]],
                nuclear_fraction |-> nuclear_fraction])]

PowerProfiles(lists, period, installed, gen, nuclear_fraction) ==
    AppendScenario(lists, period, installed, gen, BessSeries(period, gen),
                   nuclear_fraction)

Installed(lists, period, installed, nuclear_fraction) ==
    PowerProfiles(lists, period, installed, Generation(period, installed),
                  nuclear_fraction)

Period(lists, caps, df_cf_period, nuclear_fraction) ==
    Installed(lists, df_cf_period,
              InstalledCapacity(caps, df_cf_period, nuclear_fraction),
              nuclear_fraction)

\* one iteration of the loop over nuclear_fractions
Scenario(lists, df, caps, nuclear_fraction, start_date, end_date) ==
    Period(lists, caps, LocSlice(df, start_date, end_date), nuclear_fraction)

RECURSIVE FirstPass(_, _, _, _, _, _)
FirstPass(lists, df, caps, nuclear_fractions, start_date, end_date) ==
    IF nuclear_fractions = << >> THEN lists
    ELSE FirstPass(Scenario(lists, df, caps, Head(nuclear_fractions),
                            start_date, end_date),
                   df, caps, Tail(nuclear_fractions), start_date, end_date)

\* max_positive of one scenario: the largest hourly sum of the generation columns
MaxPositive(df) ==
    MaxSeq([h \in 1..Len(df) |->
              FAdd(FAdd(FAdd(df[h].val["Nuclear"], df[h].val["Wind offshore"]),
                        df[h].val["Wind onshore"]), df[h].val["Solar"])])

\* min_negative of one scenario
MinNegative(df) ==
    PyMin(MinSeq([h \in 1..Len(df) |-> df[h].val["Storage potential"]]),
          MinSeq([h \in 1..Len(df) |-> df[h].val["Storage consumption requirement"]]))

Padded(y_min, y_max, padding) == <<FSub(y_min, padding), FAdd(y_max, padding)>>

YRange(y_min, y_max) == Padded(y_min, y_max, FMul(FSub(y_max, y_min), Decimal(1, 10)))

\* [final_y_min, final_y_max], the y-axis range of every subplot
YLimits(scenario_data) ==
    YRange(PyMinList([i \in 1..Len(scenario_data) |-> MinNegative(scenario_data[i].df)]),
           PyMaxList([i \in 1..Len(scenario_data) |-> MaxPositive(scenario_data[i].df)]))

\* the bar traces of every subplot, in the order they are added
positive_cols ==
    <<"Nuclear", "Wind offshore", "Wind onshore", "Solar", "Storage potential">>

BarCols == Append(positive_cols, "Storage consumption requirement")

NoReturn ==
    [raised |-> FALSE, returned |-> FALSE, battery_capacities |-> << >>,
     installed_capacities |-> << >>, scenario_data |-> << >>, bars |-> << >>,
     y_range |-> << >>]

Returned(lists) ==
    [raised |-> FALSE, returned |-> TRUE,
     battery_capacities |-> lists.battery_capacities,
     installed_capacities |-> lists.installed_capacities,
     scenario_data |-> lists.scenario_data,
     bars |-> BarCols,
     y_range |-> YLimits(lists.scenario_data)]

\* None * total_load_energy raises TypeError in the iteration of that scenario,
\* max() of the empty list of an empty nuclear_fractions raises ValueError, and
\* nothing is returned; otherwise (fig, battery_capacities,
\* installed_capacities), the figure being its traces' data and its y range
CreateInteractiveEnergyPlot(df, caps, nuclear_fractions, start_date, end_date) ==
    IF \E i \in 1..Len(nuclear_fractions) : nuclear_fractions[i] = None
    THEN [NoReturn EXCEPT !.raised = TRUE]
    ELSE IF nuclear_fractions = << >>
    THEN [NoReturn EXCEPT !.raised = TRUE]
    ELSE Returned(FirstPass(NewLists, df, caps, nuclear_fractions,
                            start_date, end_date))

(* ------------------------------ update_graph -------------------------- *)

\* q, or q + 1 when the remainder is above the half, or at it and q is odd
TiesToEven(q, above, at) == IF above \/ (at /\ q % 2 = 1) THEN q + 1 ELSE q

\* the integer nearest to |x|, ties to even, for |x| < 2^31
RoundHalfEven(x) ==
    IF IsZero(x) \/ x[2] <= -54 THEN 0
    ELSE IF x[2] <= -28
    THEN TiesToEven(x[3] \div Pow2(-x[2] - 27),
                    x[3] % Pow2(-x[2] - 27) > Pow2(-x[2] - 28)
                       \/ (x[3] % Pow2(-x[2] - 27) = Pow2(-x[2] - 28) /\ x[4] > 0),
                    x[3] % Pow2(-x[2] - 27) = Pow2(-x[2] - 28) /\ x[4] = 0)
    ELSE IF x[2] = -27
    THEN TiesToEven(x[3], x[4] > P26, x[4] = P26)
    ELSE TiesToEven(x[3] * Pow2(27 + x[2]) + x[4] \div Pow2(-x[2]),
                    x[4] % Pow2(-x[2]) > Pow2(-x[2] - 1),
                    x[4] % Pow2(-x[2]) = Pow2(-x[2] - 1))

\* f"{x:,.0f}": the sign, then the nearest integer; 'nan' for NaN
FormatMW(x) ==
    IF IsNaN(x) THEN [text |-> "nan", neg |-> FALSE, mw |-> 0]
    ELSE [text |-> "MW", neg |-> x[1] = 1, mw |-> RoundHalfEven(x)]

Text(t) == [text |-> t, neg |-> FALSE, mw |-> 0]

empty_donut ==
    [empty |-> TRUE,
     values |-> [t \in {"Nuclear", "Wind offshore", "Wind onshore", "Solar"} |-> Zero],
     total |-> Text("")]

CreateCapacityDonut(installed_capacity) ==
    [empty |-> FALSE, values |-> installed_capacity,
     total |-> FormatMW(SumFrom(Zero, [i \in 1..Len(GenCols) |->
                                             installed_capacity[GenCols[i]]],
                                1, 1, Len(GenCols)))]

NoDateInfo == [shown |-> FALSE, start_str |-> 0, end_str |-> 0, days |-> 0]

NoWarning == [kind |-> "", n |-> 0]

NoOutput ==
    [status |-> "none", warning |-> NoWarning, date_info |-> NoDateInfo,
     backup |-> <<Text(""), Text("")>>, donut |-> <<empty_donut, empty_donut>>]

NoCall == [made |-> FALSE, nuclear_fractions |-> << >>, start_date |-> 0, end_date |-> 0]

\* end and end_str after "Check if end date exceeds available data"
ClipEnd(end, maxdate) ==
    IF end > ToDatetime(maxdate) THEN ToDatetime(maxdate) ELSE end

\* faulty variant: end clipped, end_str not formatted again
ClipEndStrStale(end, maxdate) == Strftime(end)

ClipEndStr(end, maxdate) == Strftime(ClipEnd(end, maxdate))

\* start after "Check if start is before minimum"
ClipStart(start, mindate) ==
    IF start < ToDatetime(mindate) THEN ToDatetime(mindate) ELSE start

WarningMessage(start0, end0, mindate, maxdate) ==
    IF start0 < ToDatetime(mindate)
    THEN [kind |-> "adjusted", n |-> Strftime(ToDatetime(mindate))]
    ELSE IF end0 > ToDatetime(maxdate)
    THEN [kind |-> "beyond", n |-> DaysBetween(ToDatetime(maxdate), start0)]
    ELSE NoWarning

\* the try block and its except clause, r being what the call c returned
TryBlock(r, c, warning_message, date_info) ==
    IF r.raised
    THEN [out |-> [status |-> "error", warning |-> [kind |-> "error", n |-> 0],
                   date_info |-> date_info,
                   backup |-> <<Text("Error"), Text("Error")>>,
                   donut |-> <<empty_donut, empty_donut>>],
          call |-> c, ret |-> r]
    ELSE [out |-> [status |-> "ok", warning |-> warning_message,
                   date_info |-> date_info,
                   backup |-> <<FormatMW(r.battery_capacities[1]),
                                FormatMW(r.battery_capacities[2])>>,
                   donut |-> <<CreateCapacityDonut(r.installed_capacities[1]),
                               CreateCapacityDonut(r.installed_capacities[2])>>],
          call |-> c, ret |-> r]

CreateFigure(df, caps, nuclear_fractions, start_str, end_str, warning_message, days) ==
    TryBlock(CreateInteractiveEnergyPlot(df, caps, nuclear_fractions,
                                         start_str, end_str),
             [made |-> TRUE, nuclear_fractions |-> nuclear_fractions,
              start_date |-> start_str, end_date |-> end_str],
             warning_message,
             [shown |-> TRUE, start_str |-> start_str, end_str |-> end_str,
              days |-> days])

\* the callback: what it returns (out), the call it makes to
\* create_interactive_energy_plot (call) and what that call returns (ret)
UpdateGraph(df, caps, mindate, maxdate, start_date, duration_days, nuc1, nuc2) ==
    IF nuc1 = None \/ nuc2 = None
    THEN \* x / 100 raises TypeError before the try block
         [out |-> [NoOutput EXCEPT !.status = "raised"], call |-> NoCall,
          ret |-> NoReturn]
    ELSE IF start_date = None
    THEN [out |-> [NoOutput EXCEPT !.status = "no_start",
                                   !.warning = [kind |-> "select", n |-> 0],
                                   !.backup = <<Text("N/A"), Text("N/A")>>],
          call |-> NoCall, ret |-> NoReturn]
    ELSE
    LET start0 == ToDatetime(start_date[1])
        end0 == start0 + Timedelta(duration_days)
    IN  CreateFigure(df, caps, <<FDiv(FromInt(nuc1[1]), FromInt(100)),
                      FDiv(FromInt(nuc2[1]), FromInt(100))>>,
                     Strftime(ClipStart(start0, mindate)),
                     ClipEndStr(end0, maxdate),
                     WarningMessage(start0, end0, mindate, maxdate),
                     DaysBetween(ClipEnd(end0, maxdate), ClipStart(start0, mindate)))

(* ------------------------------- requests ----------------------------- *)

\* dates a request may name: one day before the table to one day after it
Days == -1..NumDays

\* values of the duration dropdown that fit a table of NumDays days
Durations == {1, 3}

\* slider positions, and None for a slider without a value
SliderPairs ==
    {<<Some(0), Some(20)>>, <<Some(50), Some(100)>>, <<None, Some(50)>>,
     <<Some(50), None>>}

FractionLists ==
    {<<Zero, Decimal(2, 10)>>, <<Half, One>>, <<None, Half>>, <<Half, None>>}

StartDates == {None} \cup {Some(d) : d \in Days}

\* the narrower alphabet of the runs that serve several requests
SeqDays == {0, NumDays}

SeqFractionLists == {<<Zero, Half>>, <<Half, None>>}

SeqStartDates == {None, Some(0)}

SeqSliderPairs == {<<Some(0), Some(50)>>, <<Some(50), None>>}

NoRequest ==
    [op |-> "none", start |-> None, end |-> None, duration |-> None, fractions |-> << >>]

NoFirst ==
    [set |-> FALSE, between |-> FALSE, req |-> NoRequest, ret |-> NoReturn,
     out |-> NoOutput]

\* the history variable first keeps the first request served and its results,
\* and whether another request has been served since
Remember(r, re, o) ==
    IF first.set
    THEN [first EXCEPT !.between = first.between \/ r # first.req]
    ELSE [set |-> TRUE, between |-> FALSE, req |-> r, ret |-> re, out |-> o]

Init ==
    /\ df_cf \in Tables
    /\ capacities_dict \in WeightSets
    /\ min_date = Strftime(IndexMin(df_cf))
    /\ max_date = Strftime(IndexMax(df_cf))
    /\ req = NoRequest
    /\ call = NoCall
    /\ ret = NoReturn
    /\ out = NoOutput
    /\ first = NoFirst

\* a request q is served: the call c was made and returned r, the callback
\* returned o; the module's table, weights and date range are only read
Serve(q, c, r, o) ==
    /\ req' = q
    /\ call' = c
    /\ ret' = r
    /\ out' = o
    /\ first' = Remember(q, r, o)
    /\ UNCHANGED <<df_cf, capacities_dict, min_date, max_date>>

ServeCallback(q, u) == Serve(q, u.call, u.ret, u.out)

\* a direct call of create_interactive_energy_plot on the module's table
EvaluateOn(fractionLists, days) ==
    \E fs \in fractionLists, s \in days, e \in days :
        Serve([op |-> "evaluate", start |-> Some(s), end |-> Some(e),
               duration |-> None, fractions |-> fs],
              [made |-> TRUE, nuclear_fractions |-> fs,
               start_date |-> s, end_date |-> e],
              CreateInteractiveEnergyPlot(df_cf, capacities_dict, fs, s, e),
              NoOutput)

\* the Dash callback fires
CallbackOn(startDates, sliderPairs) ==
    \E sd \in startDates, dur \in Durations, nuc \in sliderPairs :
        ServeCallback([op |-> "update_graph", start |-> sd, end |-> None,
                       duration |-> Some(dur), fractions |-> nuc],
                      UpdateGraph(df_cf, capacities_dict, min_date, max_date,
                                  sd, dur, nuc[1], nuc[2]))

\* Spec: every request, served once on every table and every mix
Evaluate == req = NoRequest /\ EvaluateOn(FractionLists, Days)

Callback == req = NoRequest /\ CallbackOn(StartDates, SliderPairs)

Next == Evaluate \/ Callback

Spec == Init /\ [][Next]_vars

\* SpecEval: every direct call of create_interactive_energy_plot, made once
\* on every table and every mix
SpecEval == Init /\ [][Evaluate]_vars

\* SpecSeq: any sequence of requests on the module's own weights
InitSeq ==
    /\ Init
    /\ capacities_dict = ModuleWeights
    /\ df_cf \in {TableOf("one", "mix", "alt"), TableOf("zero", "mix", "flat")}

EvaluateSeq == EvaluateOn(SeqFractionLists, SeqDays)

CallbackSeq == CallbackOn(SeqStartDates, SeqSliderPairs)

NextSeq == EvaluateSeq \/ CallbackSeq

SpecSeq == InitSeq /\ [][NextSeq]_vars

(* ------------------------- what the claims speak of ------------------- *)

\* the window of the last call, its sums, and the scenarios it returned
Window == LocSlice(df_cf, call.start_date, call.end_date)

ColSum(col) == SumSeq(Column(Window, col))

WeightedCfSum ==
    SumSeq([i \in 1..3 |->
              LET t == <<"Solar", "Wind onshore", "Wind offshore">>[i]
              IN  FMul(capacities_dict[t], ColSum(t))])

Scenarios == IF ret.returned THEN 1..Len(ret.scenario_data) ELSE {}

Hours(i) == 1..Len(ret.scenario_data[i].df)

FractionOf(i) == ret.scenario_data[i].nuclear_fraction

\* total generation in hour h of scenario i, from the returned profile
GenAt(i, h) ==
    SumSeq([k \in 1..Len(GenCols) |-> ret.scenario_data[i].df[h].val[GenCols[k]]])

LoadAt(i, h) == ret.scenario_data[i].load[h].val

\* total generation minus load in hour h of scenario i
BessAt(i, h) == FSub(GenAt(i, h), LoadAt(i, h))

BessOf(i) == [h \in Hours(i) |-> BessAt(i, h)]

PeakSurplus(i) == MaxSeq([h \in Hours(i) |-> ClipLower0(BessAt(i, h))])

PeakDeficit(i) == MaxSeq([h \in Hours(i) |-> FNeg(ClipUpper0(BessAt(i, h)))])

\* the six stacked bar series of hour h of scenario i, added up in bar order
StackAt(i, h) ==
    SumSeq([k \in 1..Len(ret.bars) |-> ret.scenario_data[i].df[h].val[ret.bars[k]]])

\* the rounding tolerance 2^-30, about 1e-9, and "a = b within the tolerance,
\* relative to scale"
Tolerance == <<0, -82, P25, 0>>

Close(a, b, scale) == FGe(FMul(Tolerance, FAbs(scale)), FAbs(FSub(a, b)))

\* the load plus the generation of hour h, and of the whole window
HourScale(i, h) == FAdd(LoadAt(i, h), GenAt(i, h))

\* the largest load plus generation of an hour of the window
PeakScale(i) == MaxSeq([h \in Hours(i) |-> HourScale(i, h)])

(* ------------------------------- claims ------------------------------- *)

\* C1: every returned scenario has Nuclear installed capacity
\* f * sum(Load) / sum(Nuclear CF) over the window, 0 when that sum is zero, and
\* each renewable t has weights[t] * C with
\* C = (1 - f) * sum(Load) / sum_t weights[t] * sum(CF[t]), 0 when that sum is zero.
C1_InstalledCapacities ==
    \A i \in Scenarios :
        LET f == FractionOf(i)
            C == IF IsZero(WeightedCfSum) THEN Zero
                 ELSE FDiv(FMul(FSub(One, f), ColSum("Load")), WeightedCfSum)
        IN  /\ FEq(ret.installed_capacities[i]["Nuclear"],
                   IF IsZero(ColSum("Nuclear")) THEN Zero
                   ELSE FDiv(FMul(f, ColSum("Load")), ColSum("Nuclear")))
            /\ \A t \in RenewableCols :
                 FEq(ret.installed_capacities[i][t], FMul(capacities_dict[t], C))

\* a window without nuclear output but with a fraction > 0 (the zero guard), in
\* which the renewables are sized to a positive capacity
C1_Witness ==
    /\ ret.returned
    /\ IsZero(ColSum("Nuclear"))
    /\ FGt(FractionOf(1), Zero)
    /\ FGt(ret.installed_capacities[1]["Solar"], Zero)
    /\ FGt(ret.installed_capacities[1]["Wind offshore"], Zero)

\* C2: the backup capacity of every returned scenario is
\* max(peak surplus, peak deficit), it is >= 0, and it is 0 when generation
\* equals load in every hour of the window.
C2_BackupCapacity ==
    \A i \in Scenarios :
        /\ ret.battery_capacities[i] = PyMax(PeakSurplus(i), PeakDeficit(i))
        /\ FGe(ret.battery_capacities[i], Zero)
        /\ (\A h \in Hours(i) : IsZero(BessAt(i, h)))
              => FEq(ret.battery_capacities[i], Zero)

\* C3: in every hour of every scenario 'Storage consumption requirement' is
\* min(bess, 0), hence <= 0, like 'Storage potential', which is -max(bess, 0).
C3_ConsumptionNegative ==
    \A i \in Scenarios : \A h \in Hours(i) :
        LET v == ret.scenario_data[i].df[h].val
        IN  /\ FEq(v["Storage consumption requirement"], PyMin(BessAt(i, h), Zero))
            /\ FGe(Zero, v["Storage consumption requirement"])
            /\ FEq(v["Storage potential"], FNeg(PyMax(BessAt(i, h), Zero)))

\* C4: a call whose window has start > end, or lies outside the table, or has
\* no rows, fails with an error and returns no capacities.
C4_InvalidWindowFails ==
    (call.made /\ (call.start_date > call.end_date \/ Window = << >>))
        => (ret.raised /\ ~ret.returned)

\* C5: when one scenario of a refresh raises, update_graph still produces the
\* backup-capacity text and the donut of the other scenario.
C5_OtherScenarioSurvives ==
    \A i \in 1..2 :
        (/\ req.op = "update_graph"
         /\ req.start # None
         /\ req.fractions[i] = None
         /\ req.fractions[3 - i] # None)
            => (out.backup[3 - i].text = "MW" /\ ~out.donut[3 - i].empty)

\* C6: for a start date within the data range, when start + duration is later
\* than the last date, the end is clipped to the last date, the evaluation
\* succeeds, and the window reported and the window evaluated are the clipped
\* one, which ends at or before the last timestamp of the table.
C6_EndClipped ==
    (/\ req.op = "update_graph"
     /\ req.fractions[1] # None /\ req.fractions[2] # None
     /\ req.start # None
     /\ min_date <= req.start[1] /\ req.start[1] <= max_date
     /\ req.start[1] + req.duration[1] > max_date)
        => /\ out.status = "ok"
           /\ out.date_info = [shown |-> TRUE, start_str |-> req.start[1],
                               end_str |-> max_date,
                               days |-> max_date - req.start[1]]
           /\ call.made /\ ret.returned
           /\ call.start_date = req.start[1] /\ call.end_date = max_date
           /\ Window # << >>
           /\ Window[Len(Window)].ts <= IndexMax(df_cf)
           /\ \A i \in 1..2 : out.backup[i].text = "MW" /\ ~out.donut[i].empty

\* a request whose window runs past the last date, cut to a single day
C6_Witness ==
    /\ req.op = "update_graph"
    /\ req.start = Some(max_date)
    /\ req.duration = Some(3)
    /\ out.status = "ok"
    /\ out.warning = [kind |-> "beyond", n |-> 0]
    /\ out.date_info.end_str = max_date

\* the table with every capacity-factor column multiplied by k, and what the
\* last call returns on it
ScaleCF(df, k) ==
    [i \in 1..Len(df) |->
        [col \in TableCols |-> IF col = "Load" THEN df[i][col] ELSE FMul(k, df[i][col])]]

ScaledReturn(k) ==
    CreateInteractiveEnergyPlot(ScaleCF(df_cf, k), capacities_dict,
                                call.nuclear_fractions, call.start_date,
                                call.end_date)

\* r has the installed capacities of the last call divided by k, and its
\* profile and backup capacities, bit for bit
SameUnderScaling(r, k) ==
    /\ r.returned
    /\ r.battery_capacities = ret.battery_capacities
    /\ r.scenario_data = ret.scenario_data
    /\ \A i \in Scenarios : \A t \in DOMAIN ret.installed_capacities[i] :
          r.installed_capacities[i][t] = FDiv(ret.installed_capacities[i][t], k)

\* the same, within the rounding tolerance: each installed capacity relative
\* to 1/k times the one of the last call, each value of the profile relative
\* to the hour's load plus generation, the backup capacity relative to the
\* largest such sum of the window (or both NaN, on a window without rows)
CloseUnderScaling(r, k) ==
    /\ r.returned
    /\ \A i \in Scenarios :
          /\ \A t \in DOMAIN ret.installed_capacities[i] :
                Close(r.installed_capacities[i][t],
                      FDiv(ret.installed_capacities[i][t], k),
                      FDiv(ret.installed_capacities[i][t], k))
          /\ Len(r.scenario_data[i].df) = Len(ret.scenario_data[i].df)
          /\ \A h \in Hours(i) : \A c \in ProfileCols :
                Close(r.scenario_data[i].df[h].val[c],
                      ret.scenario_data[i].df[h].val[c], HourScale(i, h))
          /\ \/ r.battery_capacities[i] = ret.battery_capacities[i]
             \/ Close(r.battery_capacities[i], ret.battery_capacities[i],
                      PeakScale(i))

\* C8 as stated: with every capacity-factor column multiplied by k > 0 and
\* Load as it is, every installed capacity is multiplied by 1/k and the
\* generation of every technology, the storage series and the backup capacity
\* are unchanged.
ScaleFactors == {FromInt(3), Half}

C8_ScalingCF ==
    (call.made /\ ret.returned)
        => \A k \in ScaleFactors : SameUnderScaling(ScaledReturn(k), k)

\* C8 amended: the same holds bit for bit when k is a power of two, and
\* within the rounding tolerance for any other k: every installed capacity
\* within 2^-30 of 1/k times the unscaled one, every value of the profile
\* within 2^-30 of the hour's load plus generation, the backup capacity
\* within 2^-30 of the largest such sum of the window.
PowersOfTwo == {Half, FromInt(2)}

\* 3, 3 * 2^-30 and 1/3
OtherFactors == {FromInt(3), FMul(FromInt(3), Tolerance), Decimal(1, 3)}

C8_ScalingCFRounded ==
    (call.made /\ ret.returned)
        => /\ \A k \in PowersOfTwo : SameUnderScaling(ScaledReturn(k), k)
           /\ \A k \in OtherFactors : CloseUnderScaling(ScaledReturn(k), k)

\* both fleets sized to a positive capacity on a window with surplus and
\* deficit, and a profile that scaling by 3 changes in its last bits
C8_Witness ==
    /\ call.made /\ ret.returned
    /\ FGt(ret.installed_capacities[1]["Nuclear"], Zero)
    /\ FGt(ret.installed_capacities[1]["Solar"], Zero)
    /\ FGt(ret.battery_capacities[1], Zero)
    /\ Len(Window) = NumRows
    /\ ScaledReturn(FromInt(3)).scenario_data # ret.scenario_data

\* C9 as stated: when sum(Nuclear CF) > 0 and the weighted renewable CF sum > 0
\* the sum of bess over the window is 0 and peak surplus > 0 iff peak
\* deficit > 0; when one of the sums is zero while its share of the load energy
\* is not, the sum of bess is negative.
C9_EnergyBalance ==
    \A i \in Scenarios :
        LET f == FractionOf(i)
            total == SumSeq(BessOf(i))
        IN  /\ (FGt(ColSum("Nuclear"), Zero) /\ FGt(WeightedCfSum, Zero))
                 => /\ IsZero(total)
                    /\ FGt(PeakSurplus(i), Zero) <=> FGt(PeakDeficit(i), Zero)
            /\ ((IsZero(ColSum("Nuclear")) /\ FGt(FMul(f, ColSum("Load")), Zero))
                \/ (IsZero(WeightedCfSum)
                     /\ FGt(FMul(FSub(One, f), ColSum("Load")), Zero)))
                 => FGt(Zero, total)

\* C9 amended: in the first case the sum of bess is 0 within the rounding
\* tolerance (2^-30 of sum(Load)), and a peak surplus above that tolerance
\* comes with a peak deficit > 0 and the other way round; in the second case
\* the sum of bess is negative when the share in question exceeds the tolerance.
C9_EnergyBalanceRounded ==
    \A i \in Scenarios :
        LET f == FractionOf(i)
            total == SumSeq(BessOf(i))
            noise == FMul(Tolerance, ColSum("Load"))
        IN  /\ (FGt(ColSum("Nuclear"), Zero) /\ FGt(WeightedCfSum, Zero))
                 => /\ Close(total, Zero, ColSum("Load"))
                    /\ FGt(PeakSurplus(i), noise) => FGt(PeakDeficit(i), Zero)
                    /\ FGt(PeakDeficit(i), noise) => FGt(PeakSurplus(i), Zero)
            /\ ((IsZero(ColSum("Nuclear")) /\ FGt(FMul(f, ColSum("Load")), noise))
                \/ (IsZero(WeightedCfSum)
                     /\ FGt(FMul(FSub(One, f), ColSum("Load")), noise)))
                 => FGt(Zero, total)

\* a scenario of both fleets with hours of surplus and hours of deficit, whose
\* bess adds up to a rounding residue instead of 0
C9_Witness ==
    /\ ret.returned
    /\ FGt(ColSum("Nuclear"), Zero) /\ FGt(WeightedCfSum, Zero)
    /\ FractionOf(1) = Half
    /\ FGt(PeakSurplus(1), FMul(Tolerance, ColSum("Load")))
    /\ FGt(PeakDeficit(1), FMul(Tolerance, ColSum("Load")))
    /\ ~IsZero(SumSeq(BessOf(1)))

\* C10 as stated: in every hour of every scenario the six stacked bar series
\* add up to Load, and at most one of the two storage series is non-zero.
C10_StackIdentity ==
    \A i \in Scenarios : \A h \in Hours(i) :
        LET v == ret.scenario_data[i].df[h].val
        IN  /\ Len(ret.bars) = 6
            /\ FEq(StackAt(i, h), LoadAt(i, h))
            /\ IsZero(v["Storage potential"])
                  \/ IsZero(v["Storage consumption requirement"])

\* C10 amended: the six series add up to Load within the rounding tolerance
\* (2^-30 of the hour's load plus generation), and at most one of the two
\* storage series is non-zero.
C10_StackIdentityRounded ==
    \A i \in Scenarios : \A h \in Hours(i) :
        LET v == ret.scenario_data[i].df[h].val
        IN  /\ Len(ret.bars) = 6
            /\ Close(StackAt(i, h), LoadAt(i, h), HourScale(i, h))
            /\ IsZero(v["Storage potential"])
                  \/ IsZero(v["Storage consumption requirement"])

\* a scenario with an hour of surplus, an hour of deficit, and an hour whose
\* stack misses Load by a rounding error
C10_Witness ==
    /\ ret.returned
    /\ \E h \in Hours(1) : ~IsZero(ret.scenario_data[1].df[h].val["Storage potential"])
    /\ \E h \in Hours(1) :
          ~IsZero(ret.scenario_data[1].df[h].val["Storage consumption requirement"])
    /\ \E h \in Hours(1) : ~FEq(StackAt(1, h), LoadAt(1, h))

====
